---- MODULE Spec2Model ----
(***************************************************************************)
(* A state-machine model of the demo applications of the Angular tutorial  *)
(* repository: the RxJS chat (ChatService, ChatBoxComponent,               *)
(* MessageInputComponent), the currency converter (ExchangeRateService,    *)
(* CurrencyConverterComponent), the task manager (TaskManagerService,      *)
(* TodoListComponent), the tooltip (TooltipDirective) and the discount     *)
(* pipe (DiscountPipe).                                                    *)
(*                                                                         *)
(* A message or a task is a sequence of one-character strings, so that     *)
(* trim() and + are computed as the code computes them. Each application   *)
(* has a specification of its own; the others' variables then stay as      *)
(* they are after construction.                                            *)
(***************************************************************************)
EXTENDS Integers, Sequences, FiniteSets, TLC

VARIABLES
    history,      \* ChatService.history: the BehaviorSubject's current value
    boxes,        \* the ChatBoxComponent instances: constructed?, messages,
                  \* and the arrays received during the last operation
    newMessage,   \* MessageInputComponent.newMessage
    emissions,    \* values handed to subscribers during the last operation
    chatLast,     \* the last chat operation, its argument and the history before it
    arrays,       \* every array the BehaviorSubject was given, oldest first
    kept,         \* the array a subscriber has kept: its place in arrays and
                  \* what it held when it was received
    sent,         \* how many sendMessage calls found a non-whitespace character
    exchangeRates,   \* ExchangeRateServiceService.exchangeRates
    amount,          \* CurrencyConverterComponent.amount
    fromCurrency,    \* CurrencyConverterComponent.fromCurrency
    toCurrency,      \* CurrencyConverterComponent.toCurrency
    convertedAmount, \* CurrencyConverterComponent.convertedAmount
    alerts,          \* the messages alert() showed during the last operation
    fxLast,          \* the last converter operation, its inputs and its outcome
    tasks,        \* TaskManagerService.tasks: the contents of the array
    todoLast,     \* the last task operation, its arguments and the tasks before it
    tasksRef,     \* the identity of the array TaskManagerService.tasks refers to
    otherArrays,  \* the contents of the task arrays the service no longer refers to
    todoComps,    \* the service-backed TodoListComponent instances
    appLast,      \* the last operation of a TodoListComponent and its instance
    tooltipText,     \* TooltipDirective.tooltipText
    tooltipElement,  \* TooltipDirective.tooltipElement: a node, or 0 for null
    nodes,           \* the DOM nodes in use: tag, classes, text
    hostChildren,    \* the children of the host element, first to last
    tipLast,         \* the last tooltip operation and the children before it
    pipeLast,        \* the last DiscountPipe.transform call: arguments, fvalue, result
    todoList,        \* the standalone TodoListComponent: tasks, newTask, IsAny
    listLast         \* its last operation, the index given and its fields before

chatVars == <<history, boxes, newMessage, emissions, chatLast, arrays, kept,
              sent>>

fxVars == <<exchangeRates, amount, fromCurrency, toCurrency, convertedAmount,
            alerts, fxLast>>

todoAppVars == <<tasksRef, otherArrays, todoComps, appLast>>

todoVars == <<tasks, todoLast, todoAppVars>>

tipVars == <<tooltipText, tooltipElement, nodes, hostChildren, tipLast>>

pipeVars == <<pipeLast>>

listVars == <<todoList, listLast>>

vars == <<chatVars, fxVars, todoVars, tipVars, pipeVars, listVars>>

----------------------------------------------------------------------------
(* Bounds of the model. *)

\* longest string typed or passed in
MaxStrLen == 2
\* longest history the model lets the service build
MaxHistory == 4
\* number of ChatBoxComponent instances that may be constructed
MaxBoxes == 2
\* largest amount entered in the converter
MaxAmount == 2
\* longest task list the model lets the service build
MaxTasks == 3
\* longest task list built through the TodoListComponent instances
MaxAppTasks == 2
\* longest string typed into a TodoListComponent
MaxTaskLen == 1
MaxHostChildren == 3
MaxListTasks == 3
\* the prices of one fraction digit go from 0 up to this many tenths
MaxPriceTenths == 15

----------------------------------------------------------------------------
(* Strings. *)

\* the characters inputs are made of
Chars == {"a", " "}

\* the characters String.prototype.trim removes
WhiteSpace == {" "}

\* every string of at most MaxStrLen characters
Strings == UNION {[1..n -> Chars] : n \in 0..MaxStrLen}

RECURSIVE trimStart(_)
trimStart(s) ==
    IF s # <<>> /\ Head(s) \in WhiteSpace THEN trimStart(Tail(s)) ELSE s

RECURSIVE trimEnd(_)
trimEnd(s) ==
    IF s # <<>> /\ s[Len(s)] \in WhiteSpace
    THEN trimEnd(SubSeq(s, 1, Len(s) - 1))
    ELSE s

\* String.prototype.trim
trim(s) == trimEnd(trimStart(s))

\* JavaScript truthiness of a string: the empty string is falsy
truthyString(s) == s # <<>>

----------------------------------------------------------------------------
(* The chat: ChatService, ChatBoxComponent, MessageInputComponent. *)

Boxes == 1..MaxBoxes

\* "consider this as an answer of: "
AnswerPrefix ==
    <<"c", "o", "n", "s", "i", "d", "e", "r", " ", "t", "h", "i", "s", " ",
      "a", "s", " ", "a", "n", " ", "a", "n", "s", "w", "e", "r", " ", "o",
      "f", ":", " ">>

\* a ChatBoxComponent before its constructor has run
NoBox == [constructed |-> FALSE, messages |-> <<>>, received |-> <<>>]

\* the subscriber of ChatBoxComponent: history => (this.messages = history)
Callback(box, value) == [box EXCEPT !.messages = value]

\* BehaviorSubject.next(value): keep the value and hand it, synchronously, to
\* every subscriber. st = [value, boxes, emissions, arrays]; value is the
\* array last in st.arrays.
next(st, value) ==
    [value     |-> value,
     boxes     |-> [b \in Boxes |->
                      IF st.boxes[b].constructed
                      THEN [Callback(st.boxes[b], value) EXCEPT
                               !.received = Append(@, Len(st.arrays))]
                      ELSE st.boxes[b]],
     emissions |-> Append(st.emissions, value),
     arrays    |-> st.arrays]

\* an addHistory that stores the new array and never calls next()
addHistoryWithoutNext(st, m) == [st EXCEPT !.value = <<m>> \o st.value]

\* an addHistory that puts the message at the end
addHistoryAtTheEnd(st, m) ==
    LET updatedMessages == st.value \o <<m>>
    IN  next([st EXCEPT !.arrays = Append(@, updatedMessages)],
             updatedMessages)

\* an addHistory that changes the current array (unshift) and emits it again
addHistoryInPlace(st, m) ==
    LET updatedMessages == <<m>> \o st.value
    IN  next([st EXCEPT !.arrays[Len(st.arrays)] = updatedMessages],
             updatedMessages)

\* ChatService.addHistory: a new array, built by spreading the current one
addHistory(st, m) ==
    LET updatedMessages == <<m>> \o st.value
    IN  next([st EXCEPT !.arrays = Append(@, updatedMessages)],
             updatedMessages)

\* an answerIt that pushes no reply
answerItNothing(st, m) == st

\* ChatService.answerIt
answerIt(st, m) ==
    LET asnwering == AnswerPrefix \o <<"(", " ">> \o m \o <<" ", ")">>
    IN  addHistory(st, asnwering)

\* an addMessage that answers before it stores the message
addMessageAnswersFirst(st, m) == addHistory(answerIt(st, m), m)

\* ChatService.addMessage
addMessage(st, m) == answerIt(addHistory(st, m), m)

\* a subscribe with the semantics of a plain Subject: nothing is replayed
subscribeWithoutReplay(st, b) ==
    [value     |-> st.value,
     boxes     |-> [st.boxes EXCEPT
                      ![b] = [constructed |-> TRUE, messages |-> <<>>,
                              received |-> <<>>]],
     emissions |-> st.emissions,
     arrays    |-> st.arrays]

\* BehaviorSubject.subscribe through histories$: the new subscriber is handed
\* the current value at once
subscribe(st, b) ==
    [value     |-> st.value,
     boxes     |-> [st.boxes EXCEPT
                      ![b] = Callback([constructed |-> TRUE,
                                       messages |-> <<>>,
                                       received |-> <<Len(st.arrays)>>],
                                      st.value)],
     emissions |-> Append(st.emissions, st.value),
     arrays    |-> st.arrays]

\* the chat state at the start of an operation: nothing received yet
ChatState ==
    [value     |-> history,
     boxes     |-> [b \in Boxes |-> [boxes[b] EXCEPT !.received = <<>>]],
     emissions |-> <<>>,
     arrays    |-> arrays]

\* s holds a character that is no white space
HasText(s) == \E i \in 1..Len(s) : s[i] \notin WhiteSpace

ChatLast(op, arg, box) ==
    [op |-> op, arg |-> arg, box |-> box, pre |-> history]

\* new ChatBoxComponent(chatService); the instances are numbered in the
\* order of their construction
ConstructChatBox(b) ==
    /\ UNCHANGED <<fxVars, todoVars, tipVars, pipeVars, listVars>>
    /\ ~boxes[b].constructed
    /\ \A c \in Boxes : c < b => boxes[c].constructed
    /\ LET st == subscribe(ChatState, b)
       IN  /\ history' = st.value
           /\ boxes' = st.boxes
           /\ emissions' = st.emissions
           /\ arrays' = st.arrays
    /\ chatLast' = ChatLast("subscribe", <<>>, b)
    /\ UNCHANGED <<newMessage, kept, sent>>

\* a direct call of ChatService.addMessage(m)
AddMessage(m) ==
    /\ UNCHANGED <<fxVars, todoVars, tipVars, pipeVars, listVars>>
    /\ Len(history) + 2 <= MaxHistory
    /\ LET st == addMessage(ChatState, m)
       IN  /\ history' = st.value
           /\ boxes' = st.boxes
           /\ emissions' = st.emissions
           /\ arrays' = st.arrays
    /\ chatLast' = ChatLast("addMessage", m, 0)
    /\ UNCHANGED <<newMessage, kept, sent>>

\* a direct call of ChatService.addHistory(m)
AddHistory(m) ==
    /\ UNCHANGED <<fxVars, todoVars, tipVars, pipeVars, listVars>>
    /\ Len(history) + 1 <= MaxHistory
    /\ LET st == addHistory(ChatState, m)
       IN  /\ history' = st.value
           /\ boxes' = st.boxes
           /\ emissions' = st.emissions
           /\ arrays' = st.arrays
    /\ chatLast' = ChatLast("addHistory", m, 0)
    /\ UNCHANGED <<newMessage, kept, sent>>

\* a direct call of ChatService.answerIt(m)
AnswerIt(m) ==
    /\ UNCHANGED <<fxVars, todoVars, tipVars, pipeVars, listVars>>
    /\ Len(history) + 1 <= MaxHistory
    /\ LET st == answerIt(ChatState, m)
       IN  /\ history' = st.value
           /\ boxes' = st.boxes
           /\ emissions' = st.emissions
           /\ arrays' = st.arrays
    /\ chatLast' = ChatLast("answerIt", m, 0)
    /\ UNCHANGED <<newMessage, kept, sent>>

\* [(ngModel)]="newMessage": the user edits the input field
TypeMessage(m) ==
    /\ UNCHANGED <<fxVars, todoVars, tipVars, pipeVars, listVars>>
    /\ newMessage' = m
    /\ emissions' = <<>>
    /\ boxes' = ChatState.boxes
    /\ chatLast' = ChatLast("type", m, 0)
    /\ UNCHANGED <<history, arrays, kept, sent>>

\* a sendMessage without the trim() test
SendMessageUnguarded ==
    /\ UNCHANGED <<fxVars, todoVars, tipVars, pipeVars, listVars>>
    /\ Len(history) + 2 <= MaxHistory
    /\ LET st == addMessage(ChatState, newMessage)
       IN  /\ history' = st.value
           /\ boxes' = st.boxes
           /\ emissions' = st.emissions
           /\ arrays' = st.arrays
           /\ newMessage' = <<>>
    /\ chatLast' = ChatLast("sendMessage", newMessage, 0)
    /\ sent' = IF HasText(newMessage) THEN sent + 1 ELSE sent
    /\ UNCHANGED kept

\* a sendMessage that clears the input field outside the if
SendMessageAlwaysClears ==
    /\ UNCHANGED <<fxVars, todoVars, tipVars, pipeVars, listVars>>
    /\ truthyString(trim(newMessage)) => Len(history) + 2 <= MaxHistory
    /\ IF truthyString(trim(newMessage))
       THEN LET st == addMessage(ChatState, newMessage)
            IN  /\ history' = st.value
                /\ boxes' = st.boxes
                /\ emissions' = st.emissions
                /\ arrays' = st.arrays
       ELSE /\ emissions' = <<>>
            /\ boxes' = ChatState.boxes
            /\ UNCHANGED <<history, arrays>>
    /\ newMessage' = <<>>
    /\ chatLast' = ChatLast("sendMessage", newMessage, 0)
    /\ sent' = IF HasText(newMessage) THEN sent + 1 ELSE sent
    /\ UNCHANGED kept

\* MessageInputComponent.sendMessage
SendMessage ==
    /\ UNCHANGED <<fxVars, todoVars, tipVars, pipeVars, listVars>>
    /\ truthyString(trim(newMessage)) => Len(history) + 2 <= MaxHistory
    /\ IF truthyString(trim(newMessage))
       THEN LET st == addMessage(ChatState, newMessage)
            IN  /\ history' = st.value
                /\ boxes' = st.boxes
                /\ emissions' = st.emissions
                /\ arrays' = st.arrays
                /\ newMessage' = <<>>
       ELSE /\ emissions' = <<>>
            /\ boxes' = ChatState.boxes
            /\ UNCHANGED <<history, arrays, newMessage>>
    /\ chatLast' = ChatLast("sendMessage", newMessage, 0)
    /\ sent' = IF HasText(newMessage) THEN sent + 1 ELSE sent
    /\ UNCHANGED kept

\* subscriber b keeps a reference to the k-th array it received during the
\* last operation
KeepArray(b, k) ==
    /\ UNCHANGED <<fxVars, todoVars, tipVars, pipeVars, listVars>>
    /\ boxes[b].constructed
    /\ k \in 1..Len(boxes[b].received)
    /\ kept' = [id       |-> boxes[b].received[k],
                contents |-> arrays[boxes[b].received[k]]]
    /\ UNCHANGED <<history, boxes, newMessage, emissions, chatLast, arrays,
                   sent>>

ChatInit ==
    /\ history = <<>>
    /\ boxes = [b \in Boxes |-> NoBox]
    /\ newMessage = <<>>
    /\ emissions = <<>>
    /\ chatLast = [op |-> "init", arg |-> <<>>, box |-> 0, pre |-> <<>>]
    /\ arrays = << <<>> >>
    /\ kept = [id |-> 0, contents |-> <<>>]
    /\ sent = 0

ChatNext ==
    \/ \E b \in Boxes : ConstructChatBox(b)
    \/ \E m \in Strings : AddMessage(m)
    \/ \E m \in Strings : TypeMessage(m)
    \/ SendMessage

\* the messages the public methods of the service are called with directly
ServiceMessages == {<<"a">>, <<" ">>, <<" ", "a">>}

\* the service with every public method called directly
ChatServiceNext ==
    \/ \E b \in Boxes : ConstructChatBox(b)
    \/ \E m \in ServiceMessages : AddMessage(m)
    \/ \E m \in ServiceMessages : AddHistory(m)
    \/ \E m \in ServiceMessages : AnswerIt(m)

\* the service with subscribers that keep the arrays they are handed
ChatKeepNext ==
    \/ \E b \in Boxes : ConstructChatBox(b)
    \/ \E m \in Strings : AddMessage(m)
    \/ \E b \in Boxes, k \in 1..2 : KeepArray(b, k)

\* the chat as its user drives it: every message goes through the input field
ChatUINext ==
    \/ \E b \in Boxes : ConstructChatBox(b)
    \/ \E m \in Strings : TypeMessage(m)
    \/ SendMessage

----------------------------------------------------------------------------
(* The currency converter: ExchangeRateServiceService and                  *)
(* CurrencyConverterComponent.                                             *)
(*                                                                         *)
(* Currency codes and error messages are only compared and concatenated,   *)
(* so they are TLA+ strings. A rate r is held as the integer 100 * r, and  *)
(* so is the product of an amount and a rate.                              *)

\* JavaScript values
Undefined == [type |-> "undefined", n |-> 0]
Null == [type |-> "null", n |-> 0]
NaN == [type |-> "NaN", n |-> 0]
Function == [type |-> "function", n |-> 0]
Num(n) == [type |-> "number", n |-> n]

\* the table the service is constructed with
InitialRates ==
    [USD |-> [EUR |-> 90, GBP |-> 78],
     EUR |-> [USD |-> 110, GBP |-> 87],
     GBP |-> [USD |-> 128, EUR |-> 115]]

\* CurrencyConverterComponent.currencies
currencies == <<"USD", "EUR", "GBP">>

\* members every object inherits from Object.prototype (two of them)
ObjectPrototypeKeys == {"constructor", "toString"}

\* the currency codes passed to the service: the three of the table, one the
\* table does not know and the names of two inherited members
Codes == {"USD", "EUR", "GBP", "JPY"} \cup ObjectPrototypeKeys

\* JavaScript truthiness
truthy(v) ==
    CASE v.type = "number" -> v.n # 0
      [] v.type = "function" -> TRUE
      [] OTHER -> FALSE

\* amount * rate, amount a number
times(a, rate) == IF rate.type = "number" THEN Num(a * rate.n) ELSE NaN

\* a getExchangeRate that reads the table the other way round
getExchangeRateSwapped(rates, from, to) ==
    IF to \in DOMAIN rates /\ from \in DOMAIN rates[to]
    THEN [threw |-> FALSE, message |-> "", value |-> Num(rates[to][from])]
    ELSE [threw |-> TRUE, message |-> "Exchange rate not available",
          value |-> Undefined]

\* ExchangeRateServiceService.getExchangeRate: this.exchangeRates[from]?.[to]
\* reads own properties first and then those inherited from Object.prototype
\* (or, for a function, from Function.prototype)
getExchangeRate(rates, from, to) ==
    LET inner == IF from \in DOMAIN rates THEN "table"
                 ELSE IF from \in ObjectPrototypeKeys THEN "function"
                 ELSE "undefined"
        rate == CASE inner = "undefined" -> Undefined
                  [] inner = "table" ->
                        IF to \in DOMAIN rates[from] THEN Num(rates[from][to])
                        ELSE IF to \in ObjectPrototypeKeys THEN Function
                        ELSE Undefined
                  [] inner = "function" ->
                        IF to \in ObjectPrototypeKeys THEN Function
                        ELSE Undefined
    IN  IF ~truthy(rate)
        THEN [threw |-> TRUE,
              message |-> "Exchange rate not available for " \o from
                              \o " to " \o to,
              value |-> Undefined]
        ELSE [threw |-> FALSE, message |-> "", value |-> rate]

\* ExchangeRateServiceService.convertAmount
convertAmount(rates, a, from, to) ==
    LET rate == getExchangeRate(rates, from, to)
    IN  IF rate.threw THEN rate
        ELSE [threw |-> FALSE, message |-> "", value |-> times(a, rate.value)]

\* a convert whose catch block shows the alert and leaves convertedAmount
convertKeepsOldAmount(rates, a, from, to, old) ==
    LET r == convertAmount(rates, a, from, to)
    IN  IF r.threw
        THEN [convertedAmount |-> old, alerts |-> <<r.message>>,
              escaped |-> FALSE]
        ELSE [convertedAmount |-> r.value, alerts |-> <<>>, escaped |-> FALSE]

\* CurrencyConverterComponent.convert: try { ... } catch { alert; null }
convert(rates, a, from, to, old) ==
    LET r == convertAmount(rates, a, from, to)
    IN  IF r.threw
        THEN [convertedAmount |-> Null, alerts |-> <<r.message>>,
              escaped |-> FALSE]
        ELSE [convertedAmount |-> r.value, alerts |-> <<>>, escaped |-> FALSE]

\* the component's fields at the start of an operation
FxPre ==
    [amount |-> amount, fromCurrency |-> fromCurrency,
     toCurrency |-> toCurrency, convertedAmount |-> convertedAmount]

NoResult == [threw |-> FALSE, message |-> "", value |-> Undefined]

FxLast(op, a, from, to, result, escaped) ==
    [op |-> op, amount |-> a, from |-> from, to |-> to, result |-> result,
     escaped |-> escaped, pre |-> FxPre]

\* [(ngModel)]="amount"
SetAmount(a) ==
    /\ UNCHANGED <<chatVars, todoVars, tipVars, pipeVars, listVars>>
    /\ amount' = a
    /\ alerts' = <<>>
    /\ fxLast' = FxLast("setAmount", a, fromCurrency, toCurrency, NoResult, FALSE)
    /\ UNCHANGED <<exchangeRates, fromCurrency, toCurrency, convertedAmount>>

\* [(ngModel)]="fromCurrency" on a select over currencies
SelectFrom(c) ==
    /\ UNCHANGED <<chatVars, todoVars, tipVars, pipeVars, listVars>>
    /\ fromCurrency' = c
    /\ alerts' = <<>>
    /\ fxLast' = FxLast("selectFrom", amount, c, toCurrency, NoResult, FALSE)
    /\ UNCHANGED <<exchangeRates, amount, toCurrency, convertedAmount>>

\* [(ngModel)]="toCurrency" on a select over currencies
SelectTo(c) ==
    /\ UNCHANGED <<chatVars, todoVars, tipVars, pipeVars, listVars>>
    /\ toCurrency' = c
    /\ alerts' = <<>>
    /\ fxLast' = FxLast("selectTo", amount, fromCurrency, c, NoResult, FALSE)
    /\ UNCHANGED <<exchangeRates, amount, fromCurrency, convertedAmount>>

\* the Convert button: CurrencyConverterComponent.convert()
Convert ==
    /\ UNCHANGED <<chatVars, todoVars, tipVars, pipeVars, listVars>>
    /\ LET out == convert(exchangeRates, amount, fromCurrency, toCurrency,
                          convertedAmount)
       IN  /\ convertedAmount' = out.convertedAmount
           /\ alerts' = out.alerts
           /\ fxLast' = FxLast("convert", amount, fromCurrency, toCurrency,
                               convertAmount(exchangeRates, amount,
                                             fromCurrency, toCurrency),
                               out.escaped)
    /\ UNCHANGED <<exchangeRates, amount, fromCurrency, toCurrency>>

\* a direct call of ExchangeRateServiceService.convertAmount(a, from, to)
CallConvertAmount(a, from, to) ==
    /\ UNCHANGED <<chatVars, todoVars, tipVars, pipeVars, listVars>>
    /\ LET r == convertAmount(exchangeRates, a, from, to)
       IN  fxLast' = FxLast("convertAmount", a, from, to, r, r.threw)
    /\ alerts' = <<>>
    /\ UNCHANGED <<exchangeRates, amount, fromCurrency, toCurrency,
                   convertedAmount>>

FxInit ==
    /\ exchangeRates = InitialRates
    /\ amount = 0
    /\ fromCurrency = "USD"
    /\ toCurrency = "EUR"
    /\ convertedAmount = Null
    /\ alerts = <<>>
    /\ fxLast = [op |-> "init", amount |-> 0, from |-> "USD", to |-> "EUR",
                 result |-> NoResult, escaped |-> FALSE,
                 pre |-> [amount |-> 0, fromCurrency |-> "USD",
                          toCurrency |-> "EUR", convertedAmount |-> Null]]

FxNext ==
    \/ \E a \in 0..MaxAmount : SetAmount(a)
    \/ \E i \in 1..Len(currencies) : SelectFrom(currencies[i])
    \/ \E i \in 1..Len(currencies) : SelectTo(currencies[i])
    \/ Convert

\* the service called by any client, with any currency codes
FxServiceNext ==
    \E a \in 0..MaxAmount, from \in Codes, to \in Codes :
        CallConvertAmount(a, from, to)

----------------------------------------------------------------------------
(* The task manager: TaskManagerService. *)

\* Array.prototype.splice(start, deleteCount): the array that is left
splice(arr, start, deleteCount) ==
    LET len == Len(arr)
        actualStart == IF start < 0
                       THEN (IF len + start > 0 THEN len + start ELSE 0)
                       ELSE (IF start < len THEN start ELSE len)
        wanted == IF deleteCount > 0 THEN deleteCount ELSE 0
        actualDeleteCount == IF wanted < len - actualStart
                             THEN wanted ELSE len - actualStart
    IN  SubSeq(arr, 1, actualStart)
            \o SubSeq(arr, actualStart + actualDeleteCount + 1, len)

\* an addTask that does not look at the task
addTaskAlways(ts, newTask, IsAny) == Append(ts, newTask)

\* an addTask that stores the trimmed task
addTaskTrimmed(ts, newTask, IsAny) ==
    IF truthyString(trim(newTask)) THEN Append(ts, trim(newTask)) ELSE ts

\* TaskManagerService.addTask(newTask, IsAny): the tasks afterwards. The
\* assignments to the parameters newTask and IsAny are local to the call.
addTask(ts, newTask, IsAny) ==
    IF truthyString(trim(newTask)) THEN Append(ts, newTask) ELSE ts

\* a removeTask that takes two elements
removeTaskTwo(ts, index, IsAny) == splice(ts, index, 2)

\* a removeTask that is one off
removeTaskOneOff(ts, index, IsAny) == splice(ts, index + 1, 1)

\* TaskManagerService.removeTask(index, IsAny): the tasks afterwards
removeTask(ts, index, IsAny) == splice(ts, index, 1)

TodoLast(op, task, index) ==
    [op |-> op, task |-> task, index |-> index, pre |-> tasks]

\* a call of TaskManagerService.addTask(t, isAny)
AddTask(t, isAny) ==
    /\ UNCHANGED <<chatVars, fxVars, todoAppVars, tipVars, pipeVars, listVars>>
    /\ Len(tasks) < MaxTasks
    /\ tasks' = addTask(tasks, t, isAny)
    /\ todoLast' = TodoLast("addTask", t, 0)

\* a call of TaskManagerService.removeTask(index, isAny)
RemoveTask(index, isAny) ==
    /\ UNCHANGED <<chatVars, fxVars, todoAppVars, tipVars, pipeVars, listVars>>
    /\ tasks' = removeTask(tasks, index, isAny)
    /\ todoLast' = TodoLast("removeTask", <<>>, index)

TodoInit ==
    /\ tasks = <<>>
    /\ todoLast = [op |-> "init", task |-> <<>>, index |-> 0, pre |-> <<>>]

TodoNext ==
    \/ \E t \in Strings, isAny \in BOOLEAN : AddTask(t, isAny)
    \/ \E index \in (0 - MaxTasks - 1)..(MaxTasks + 1), isAny \in BOOLEAN :
          RemoveTask(index, isAny)

----------------------------------------------------------------------------
(* The to-do list: the TodoListComponent that takes its tasks from the     *)
(* TaskManagerService. An array is an object: tasksRef is the identity of  *)
(* the one TaskManagerService.tasks refers to, and a component's tasks     *)
(* field holds such an identity.                                           *)

\* the TodoListComponent instances on the page
Comps == {1, 2}

\* what is typed into the input field of a TodoListComponent
TaskInputs == UNION {[1..n -> Chars] : n \in 0..MaxTaskLen}

\* a TodoListComponent before its constructor has run
NoComp == [constructed |-> FALSE, tasks |-> 0, IsAny |-> FALSE,
           newTask |-> <<>>]

\* the task arrays at the start of an operation
TaskStore == [ref |-> tasksRef, tasks |-> tasks, others |-> otherArrays]

\* the contents of the array with identity id
arrayOf(store, id) ==
    IF id = store.ref THEN store.tasks ELSE store.others[id]

\* an addTask that builds a new array and assigns it to this.tasks
serviceAddTaskReassigns(store, newTask, IsAny) ==
    IF truthyString(trim(newTask))
    THEN [ref    |-> store.ref + 1,
          tasks  |-> Append(store.tasks, newTask),
          others |-> (store.ref :> store.tasks) @@ store.others]
    ELSE store

\* TaskManagerService.addTask on the arrays: this.tasks.push changes the
\* array this.tasks refers to, and this.tasks is not assigned
serviceAddTask(store, newTask, IsAny) ==
    [store EXCEPT !.tasks = addTask(@, newTask, IsAny)]

\* TaskManagerService.removeTask on the arrays: this.tasks.splice changes
\* the array this.tasks refers to, and this.tasks is not assigned
serviceRemoveTask(store, index, IsAny) ==
    [store EXCEPT !.tasks = removeTask(@, index, IsAny)]

\* the field initialisers of the service-backed TodoListComponent
constructTodoList(store) ==
    [constructed |-> TRUE,
     tasks       |-> store.ref,
     IsAny       |-> IF Len(store.tasks) = 0 THEN FALSE ELSE TRUE,
     newTask     |-> <<>>]

\* TodoListComponent.addTask (service-backed): newTask and IsAny are passed
\* by value, so the component's own fields stay as they are
todoListAddTask(store, comp) ==
    LET after == serviceAddTask(store, comp.newTask, comp.IsAny)
    IN  [store |-> after, comp |-> [comp EXCEPT !.tasks = after.ref]]

\* TodoListComponent.removeTask (service-backed)
todoListRemoveTask(store, comp, index) ==
    LET after == serviceRemoveTask(store, index, comp.IsAny)
    IN  [store |-> after, comp |-> [comp EXCEPT !.tasks = after.ref]]

AppLast(op, c) == [op |-> op, comp |-> c]

\* new TodoListComponent(taskService)
ConstructTodoList(c) ==
    /\ UNCHANGED <<chatVars, fxVars, tipVars, pipeVars, listVars>>
    /\ ~todoComps[c].constructed
    /\ todoComps' = [todoComps EXCEPT ![c] = constructTodoList(TaskStore)]
    /\ appLast' = AppLast("construct", c)
    /\ UNCHANGED <<tasks, todoLast, tasksRef, otherArrays>>

\* [(ngModel)]="newTask" of instance c
TypeTask(c, t) ==
    /\ UNCHANGED <<chatVars, fxVars, tipVars, pipeVars, listVars>>
    /\ todoComps[c].constructed
    /\ todoComps' = [todoComps EXCEPT ![c].newTask = t]
    /\ appLast' = AppLast("type", c)
    /\ UNCHANGED <<tasks, todoLast, tasksRef, otherArrays>>

\* the Add Task button of instance c
ClickAddTask(c) ==
    /\ UNCHANGED <<chatVars, fxVars, tipVars, pipeVars, listVars>>
    /\ todoComps[c].constructed
    /\ Len(tasks) < MaxAppTasks
    /\ LET out == todoListAddTask(TaskStore, todoComps[c])
       IN  /\ tasks' = out.store.tasks
           /\ tasksRef' = out.store.ref
           /\ otherArrays' = out.store.others
           /\ todoComps' = [todoComps EXCEPT ![c] = out.comp]
    /\ todoLast' = TodoLast("addTask", todoComps[c].newTask, 0)
    /\ appLast' = AppLast("addTask", c)

\* the Remove button of the row with the given index in instance c
ClickRemoveTask(c, index) ==
    /\ UNCHANGED <<chatVars, fxVars, tipVars, pipeVars, listVars>>
    /\ todoComps[c].constructed
    /\ LET out == todoListRemoveTask(TaskStore, todoComps[c], index)
       IN  /\ tasks' = out.store.tasks
           /\ tasksRef' = out.store.ref
           /\ otherArrays' = out.store.others
           /\ todoComps' = [todoComps EXCEPT ![c] = out.comp]
    /\ todoLast' = TodoLast("removeTask", <<>>, index)
    /\ appLast' = AppLast("removeTask", c)

TodoAppInit ==
    /\ tasksRef = 1
    /\ otherArrays = <<>>
    /\ todoComps = [c \in Comps |-> NoComp]
    /\ appLast = [op |-> "init", comp |-> 0]

\* the rows instance c renders: one per element of the array it refers to
Rows(c) == 0..(Len(arrayOf(TaskStore, todoComps[c].tasks)) - 1)

TodoAppNext ==
    \/ \E c \in Comps : ConstructTodoList(c)
    \/ \E c \in Comps, t \in TaskInputs : TypeTask(c, t)
    \/ \E c \in Comps : ClickAddTask(c)
    \/ \E c \in Comps :
          /\ todoComps[c].constructed
          /\ \E index \in Rows(c) : ClickRemoveTask(c, index)

----------------------------------------------------------------------------
(* The to-do list that holds its own tasks: the TodoListComponent without  *)
(* the service. The application is built with this version or with the    *)
(* one that takes its tasks from TaskManagerService, never with both.      *)

\* what is typed into the input field
ListInputs == {<<>>, <<" ">>, <<"a">>, <<"b">>, <<" ", "b">>}

\* a removeTask that leaves IsAny as it is
standaloneRemoveTaskKeepsIsAny(comp, index) ==
    [comp EXCEPT !.tasks = splice(@, index, 1)]

\* TodoListComponent.addTask (standalone)
standaloneAddTask(comp) ==
    IF truthyString(trim(comp.newTask))
    THEN [tasks   |-> Append(comp.tasks, comp.newTask),
          newTask |-> <<>>,
          IsAny   |-> TRUE]
    ELSE comp

\* TodoListComponent.removeTask (standalone)
standaloneRemoveTask(comp, index) ==
    LET left == splice(comp.tasks, index, 1)
    IN  [comp EXCEPT !.tasks = left,
                     !.IsAny = IF Len(left) = 0 THEN FALSE ELSE TRUE]

ListLast(op, index) == [op |-> op, index |-> index, pre |-> todoList]

\* [(ngModel)]="newTask"
TypeNewTask(t) ==
    /\ UNCHANGED <<chatVars, fxVars, todoVars, tipVars, pipeVars>>
    /\ todoList' = [todoList EXCEPT !.newTask = t]
    /\ listLast' = ListLast("type", 0)

\* a call of addTask()
ListAddTask ==
    /\ UNCHANGED <<chatVars, fxVars, todoVars, tipVars, pipeVars>>
    /\ Len(todoList.tasks) < MaxListTasks
    /\ todoList' = standaloneAddTask(todoList)
    /\ listLast' = ListLast("addTask", 0)

\* a call of removeTask(index)
ListRemoveTask(index) ==
    /\ UNCHANGED <<chatVars, fxVars, todoVars, tipVars, pipeVars>>
    /\ todoList' = standaloneRemoveTask(todoList, index)
    /\ listLast' = ListLast("removeTask", index)

\* the field initialisers of the standalone TodoListComponent
ListInit ==
    /\ todoList = [tasks |-> <<>>, newTask |-> <<>>, IsAny |-> FALSE]
    /\ listLast = [op |-> "init", index |-> 0,
                   pre |-> [tasks |-> <<>>, newTask |-> <<>>, IsAny |-> FALSE]]

ListNext ==
    \/ \E t \in ListInputs : TypeNewTask(t)
    \/ ListAddTask
    \/ \E index \in (0 - MaxListTasks - 1)..(MaxListTasks + 1) :
          ListRemoveTask(index)

\* the service called directly: no TodoListComponent has been constructed
ServiceAlone == appLast.op = "init" /\ listLast.op = "init"

\* the application with the service-backed TodoListComponent
ServiceBacked ==
    /\ listLast.op = "init"
    /\ todoLast.op = "init" \/ appLast.op # "init"

\* the application with the standalone TodoListComponent
Standalone == todoLast.op = "init" /\ appLast.op = "init"

\* the task lists: the service by itself, or the application built with one
\* of the two versions of TodoListComponent
TodoListsNext ==
    \/ ServiceAlone /\ TodoNext
    \/ ServiceBacked /\ TodoAppNext
    \/ Standalone /\ ListNext

----------------------------------------------------------------------------
(* The tooltip: TooltipDirective on a host element. A DOM node has an      *)
(* identity; nodes holds those the host or the directive still refers to.  *)

\* the text node the host element is rendered with
HostLabel == [tag |-> "#text", classes |-> {}, text |-> <<"a">>]

\* the directive and the DOM at the start of an operation
TipState ==
    [tooltipText |-> tooltipText, tooltipElement |-> tooltipElement,
     nodes |-> nodes, hostChildren |-> hostChildren, calls |-> <<>>]

\* an identity no node in use has
FreshNode(st) ==
    CHOOSE n \in 1..(Cardinality(DOMAIN st.nodes) + 1) : n \notin DOMAIN st.nodes

\* s without the entries equal to x
Without(s, x) == SelectSeq(s, LAMBDA y : y # x)

\* the nodes something still refers to
collect(st) ==
    LET used == {st.hostChildren[i] : i \in 1..Len(st.hostChildren)}
                    \cup ({st.tooltipElement} \ {0})
    IN  [st EXCEPT !.nodes = [n \in used |-> st.nodes[n]]]

\* TooltipDirective.add: createElement('li') and a text node with tooltipText
add(st) ==
    LET n == FreshNode(st)
    IN  [st EXCEPT
            !.calls = @ \o <<"createElement", "createText", "appendChild">>,
            !.tooltipElement = n,
            !.nodes = (n :> [tag |-> "li", classes |-> {},
                             text |-> st.tooltipText]) @@ st.nodes]

\* TooltipDirective.show: addClass 'tooltip', appendChild to the host
show(st) ==
    [st EXCEPT
        !.calls = @ \o <<"addClass", "appendChild">>,
        !.nodes[st.tooltipElement].classes = @ \cup {"tooltip"},
        !.hostChildren = Append(Without(@, st.tooltipElement),
                                st.tooltipElement)]

\* a leave that takes the last child of the host, whatever tooltipElement is
leaveUnguarded(st) ==
    [st EXCEPT !.calls = Append(@, "removeChild"),
               !.hostChildren = SubSeq(@, 1, Len(@) - 1),
               !.tooltipElement = 0]

\* TooltipDirective.leave
leave(st) ==
    IF st.tooltipElement # 0
    THEN [st EXCEPT !.calls = Append(@, "removeChild"),
                    !.hostChildren = Without(@, st.tooltipElement),
                    !.tooltipElement = 0]
    ELSE st

\* TooltipDirective.onMouseEnter
onMouseEnter(st) == collect(show(add(st)))

\* TooltipDirective.onMouseLeave
onMouseLeave(st) == collect(leave(st))

\* the handler that ran, the state it found and the Renderer2 calls it made
TipLast(op, calls) == [op |-> op, pre |-> TipState, calls |-> calls]

\* @HostListener('mouseenter'): a mouseenter event reaches the host element
MouseEnter ==
    /\ UNCHANGED <<chatVars, fxVars, todoVars, pipeVars, listVars>>
    /\ Len(hostChildren) < MaxHostChildren
    /\ LET st == onMouseEnter(TipState)
       IN  /\ tooltipElement' = st.tooltipElement
           /\ nodes' = st.nodes
           /\ hostChildren' = st.hostChildren
    /\ tipLast' = TipLast("mouseenter", onMouseEnter(TipState).calls)
    /\ UNCHANGED tooltipText

\* @HostListener('mouseleave'): a mouseleave event reaches the host element
MouseLeave ==
    /\ UNCHANGED <<chatVars, fxVars, todoVars, pipeVars, listVars>>
    /\ LET st == onMouseLeave(TipState)
       IN  /\ tooltipElement' = st.tooltipElement
           /\ nodes' = st.nodes
           /\ hostChildren' = st.hostChildren
    /\ tipLast' = TipLast("mouseleave", onMouseLeave(TipState).calls)
    /\ UNCHANGED tooltipText

\* [appTooltip]="tooltipText": the bound text changes
SetTooltipText(t) ==
    /\ UNCHANGED <<chatVars, fxVars, todoVars, pipeVars, listVars>>
    /\ tooltipText' = t
    /\ tipLast' = TipLast("setText", <<>>)
    /\ UNCHANGED <<tooltipElement, nodes, hostChildren>>

TipInit ==
    /\ tooltipText = <<>>
    /\ tooltipElement = 0
    /\ nodes = (1 :> HostLabel)
    /\ hostChildren = <<1>>
    /\ tipLast = [op |-> "init",
                  pre |-> [tooltipText |-> <<>>, tooltipElement |-> 0,
                           nodes |-> (1 :> HostLabel),
                           hostChildren |-> <<1>>, calls |-> <<>>],
                  calls |-> <<>>]

\* the events of the host element, in any order
TipNext ==
    \/ MouseEnter
    \/ MouseLeave
    \/ \E t \in Strings : SetTooltipText(t)

----------------------------------------------------------------------------
(* The discount pipe: DiscountPipe. A number is an IEEE 754 double:        *)
(* sign * m * 2^e with m a natural number of 53 bits, written as its       *)
(* binary digits, lowest first; zero has no digits. Natural numbers of     *)
(* any size are written the same way, without zeros at the high end.       *)

\* the binary digits of a natural number
RECURSIVE NatBits(_)
NatBits(n) == IF n = 0 THEN <<>> ELSE <<n % 2>> \o NatBits(n \div 2)

\* the natural number with these binary digits
RECURSIVE BitsNat(_)
BitsNat(a) == IF a = <<>> THEN 0 ELSE Head(a) + 2 * BitsNat(Tail(a))

\* Op applied to acc and lo, to its result and lo + 1, and so on up to hi.
\* The range is halved and the left half is computed before the right one
\* is entered, so that long numbers need no deep recursion.
RECURSIVE FoldRange(_, _, _, _)
FoldRange(Op(_, _), acc, lo, hi) ==
    IF lo > hi THEN acc
    ELSE IF lo = hi THEN Op(acc, lo)
    ELSE LET mid  == (lo + hi) \div 2
             left == FoldRange(Op, acc, lo, mid)
         IN  IF Len(<<left>>) = 1 THEN FoldRange(Op, left, mid + 1, hi)
             ELSE acc

\* the digit of a at place i, 0 beyond its end
Bit(a, i) == IF i <= Len(a) THEN a[i] ELSE 0

\* a without zeros at the high end
Strip(a) ==
    LET n == Len(a)
        zeros == CHOOSE k \in 0..n :
                    /\ k = n \/ a[n - k] = 1
                    /\ \A j \in (n - k + 1)..n : a[j] = 0
    IN  SubSeq(a, 1, n - zeros)

\* a * 2^n
ShiftLeft(a, n) == IF a = <<>> THEN <<>> ELSE [i \in 1..n |-> 0] \o a

\* a + b
BitsAdd(a, b) ==
    LET n == IF Len(a) > Len(b) THEN Len(a) ELSE Len(b)
        Step(st, i) ==
            LET s == Bit(a, i) + Bit(b, i) + st.c
            IN  [c |-> s \div 2, out |-> Append(st.out, s % 2)]
        sum == FoldRange(Step, [c |-> 0, out |-> <<>>], 1, n)
    IN  IF sum.c = 1 THEN Append(sum.out, 1) ELSE sum.out

\* a - b, for a >= b
BitsSub(a, b) ==
    LET Step(st, i) ==
            LET d == a[i] - Bit(b, i) - st.c
            IN  [c |-> IF d < 0 THEN 1 ELSE 0,
                 out |-> Append(st.out, IF d < 0 THEN d + 2 ELSE d)]
    IN  Strip(FoldRange(Step, [c |-> 0, out |-> <<>>], 1, Len(a)).out)

\* a >= b
BitsGeq(a, b) ==
    IF Len(a) # Len(b) THEN Len(a) > Len(b)
    ELSE \/ a = b
         \/ \E i \in 1..Len(a) :
               /\ a[i] > b[i]
               /\ \A j \in (i + 1)..Len(a) : a[j] = b[j]

\* a * b by columns: the digits of a and b that meet at place i are
\* counted, the carry of the places below is added
TimesDigits(a, b) ==
    LET n == Len(a) + Len(b)
        ones == {j \in 1..Len(b) : b[j] = 1}
        Step(st, i) ==
            LET s == st.c + Cardinality({j \in ones :
                                           /\ i - j + 1 >= 1
                                           /\ i - j + 1 <= Len(a)
                                           /\ a[i - j + 1] = 1})
            IN  [c |-> s \div 2, out |-> Append(st.out, s % 2)]
    IN  Strip(FoldRange(Step, [c |-> 0, out |-> <<>>], 1, n).out)

\* a * b
BitsMul(a, b) ==
    IF a = <<>> \/ b = <<>> THEN <<>>
    ELSE IF Len(b) <= Len(a) THEN TimesDigits(a, b)
    ELSE TimesDigits(b, a)

\* long division of a by b, from the highest digit of a down
LongDivMod(a, b) ==
    LET n == Len(a)
        Step(st, i) ==
            LET v == Strip(<<a[n + 1 - i]>> \o st.r)
            IN  IF BitsGeq(v, b)
                THEN [q |-> <<1>> \o st.q, r |-> BitsSub(v, b)]
                ELSE [q |-> <<0>> \o st.q, r |-> v]
        out == FoldRange(Step, [q |-> <<>>, r |-> <<>>], 1, n)
    IN  [q |-> Strip(out.q), r |-> out.r]

\* the same division for a b below 2^30, the remainder kept as an integer
ShortDivMod(a, b) ==
    LET n == Len(a)
        d == BitsNat(b)
        Step(st, i) ==
            LET v == 2 * st.r + a[n + 1 - i]
            IN  IF v >= d
                THEN [q |-> <<1>> \o st.q, r |-> v - d]
                ELSE [q |-> <<0>> \o st.q, r |-> v]
        out == FoldRange(Step, [q |-> <<>>, r |-> 0], 1, n)
    IN  [q |-> Strip(out.q), r |-> NatBits(out.r)]

\* the quotient and the remainder of a by b, b not zero
BitsDivMod(a, b) ==
    IF Len(b) <= 30 THEN ShortDivMod(a, b) ELSE LongDivMod(a, b)

\* the number 0
Zero == [sign |-> 1, m |-> <<>>, e |-> 0]

\* the double nearest to sign * (n + f) * 2^e, where 0 < f < 1 if inexact
\* and f = 0 if not; ties go to the even one. n has 55 digits or more when
\* inexact holds.
RoundToDouble(sign, n, e, inexact) ==
    IF n = <<>> THEN Zero
    ELSE IF Len(n) <= 53
    THEN [sign |-> sign, m |-> ShiftLeft(n, 53 - Len(n)),
          e |-> e - (53 - Len(n))]
    ELSE LET drop  == Len(n) - 53
             top  == SubSeq(n, drop + 1, Len(n))
             half  == n[drop] = 1
             below == inexact \/ \E i \in 1..(drop - 1) : n[i] = 1
             up    == half /\ (below \/ top[1] = 1)
             m     == IF up THEN BitsAdd(top, <<1>>) ELSE top
         IN  IF Len(m) = 54
             THEN [sign |-> sign, m |-> Tail(m), e |-> e + drop + 1]
             ELSE [sign |-> sign, m |-> m, e |-> e + drop]

\* x with the zeros at the low end of m moved into e
Odd(x) ==
    LET low == CHOOSE i \in 1..Len(x.m) :
                  /\ x.m[i] = 1
                  /\ \A j \in 1..(i - 1) : x.m[j] = 0
    IN  IF x.m = <<>> THEN x
        ELSE [x EXCEPT !.m = SubSeq(@, low, Len(@)), !.e = @ + low - 1]

\* a number literal that is a natural number
Number(n) == RoundToDouble(1, NatBits(n), 0, FALSE)

\* the operator * of two numbers
NumMul(x, y) ==
    LET a == Odd(x)
        b == Odd(y)
    IN  RoundToDouble(x.sign * y.sign, BitsMul(a.m, b.m), a.e + b.e, FALSE)

\* the operator / of two numbers, y not zero
NumDiv(x, y) ==
    LET a  == Odd(x)
        b  == Odd(y)
        k  == 55 + Len(b.m)
        dm == BitsDivMod(ShiftLeft(a.m, k), b.m)
    IN  RoundToDouble(x.sign * y.sign, dm.q, a.e - b.e - k, dm.r # <<>>)

\* the operator - of two numbers
NumSub(x, y) ==
    IF y.m = <<>> THEN x
    ELSE IF x.m = <<>> THEN [y EXCEPT !.sign = 0 - @]
    ELSE LET e0 == IF x.e < y.e THEN x.e ELSE y.e
             a  == ShiftLeft(x.m, x.e - e0)
             b  == ShiftLeft(y.m, y.e - e0)
         IN  IF x.sign # y.sign
             THEN RoundToDouble(x.sign, BitsAdd(a, b), e0, FALSE)
             ELSE IF BitsGeq(a, b)
             THEN RoundToDouble(x.sign, BitsSub(a, b), e0, FALSE)
             ELSE RoundToDouble(0 - x.sign, BitsSub(b, a), e0, FALSE)

\* the double nearest to n / d, for natural numbers n and d, d not zero
Nearest(n, d) ==
    LET k  == 55 + Len(d)
        dm == BitsDivMod(ShiftLeft(n, k), d)
    IN  RoundToDouble(1, dm.q, 0 - k, dm.r # <<>>)

\* a number literal such as 1.5, n / d with d a power of ten: the double
\* nearest to it; for other d, some double near n / d
Literal(n, d) == Nearest(NatBits(n), NatBits(d))

\* the literals 100 and 10**6
Hundred == Number(100)
Million == Number(10^6)

\* the discounts of the products are percentages
Discounts == 0..100

\* prices such as 1.5, 0.8 and 1.2, in tenths
PriceTenths == 0..MaxPriceTenths

\* other prices <<n, d>>, n / d: those of the README, 1500, 800 and 1200,
\* and prices of many digits, small and large
OtherPrices ==
    {<<1500, 1>>, <<800, 1>>, <<1200, 1>>, <<1, 3>>, <<2, 3>>, <<7, 100>>,
     <<1005, 1000>>, <<1, 1000000>>, <<99999, 100>>, <<123456789, 1000>>}

Prices == {<<tenths, 10>> : tenths \in PriceTenths} \cup OtherPrices

Digit(n) == <<"0", "1", "2", "3", "4", "5", "6", "7", "8", "9">>[n + 1]

\* the decimal digits of a natural number
RECURSIVE Digits(_)
Digits(n) == IF n < 10 THEN <<Digit(n)>> ELSE Digits(n \div 10) \o <<Digit(n % 10)>>

\* the three digits of a group after the first
Pad3(n) == <<Digit(n \div 100), Digit((n \div 10) % 10), Digit(n % 10)>>

\* a natural number, given by its binary digits, with its decimal digits
\* in groups of three
RECURSIVE Grouped(_)
Grouped(n) ==
    LET dm == BitsDivMod(n, NatBits(1000))
    IN  IF dm.q = <<>> THEN Digits(BitsNat(n))
        ELSE Grouped(dm.q) \o <<",">> \o Pad3(BitsNat(dm.r))

\* at most three fraction digits, none of them a trailing zero
Fraction(f) ==
    IF f = 0 THEN <<>>
    ELSE IF f % 100 = 0 THEN <<".", Digit(f \div 100)>>
    ELSE IF f % 10 = 0 THEN <<".", Digit(f \div 100), Digit((f \div 10) % 10)>>
    ELSE <<".">> \o Pad3(f)

\* a number of thousandths, given by its binary digits, as DecimalPipe
\* writes it
Formatted(thousandths) ==
    LET dm == BitsDivMod(thousandths, NatBits(1000))
    IN  Grouped(dm.q) \o Fraction(BitsNat(dm.r))

\* |x| = |y|
SameSize(x, y) == x.m = y.m /\ x.e = y.e

TenThousand == NatBits(10000)

\* The fraction digits of the text of x, String(x), up to the fourth, as a
\* number of ten-thousandths. The text is the shortest decimal that x is the
\* nearest double of: it has at most four fraction digits when the multiple
\* of 1/10000 nearest to x is such a decimal, and it is then that multiple;
\* if not, its first four fraction digits are those of x. below is the
\* number of ten-thousandths in x and half the first binary digit of the
\* rest. x is below 2^53 / 10000.
TextDigits(x, below, nearest) ==
    IF SameSize(Nearest(nearest, TenThousand), x) THEN nearest ELSE below

TenThousandths(x, below, half) ==
    IF half = 0 THEN below ELSE TextDigits(x, below, BitsAdd(below, <<1>>))

\* the digits after the third are dropped and the third goes up when the
\* fourth is 5 or more
RoundAt3(dm) ==
    IF BitsNat(dm.r) >= 5 THEN BitsAdd(dm.q, <<1>>) ELSE dm.q

\* the number of thousandths DecimalPipe writes for x, x = a
Rounded(x, a, n) ==
    IF a.e >= 0 THEN ShiftLeft(BitsMul(a.m, NatBits(1000)), a.e)
    ELSE RoundAt3(BitsDivMod(TenThousandths(x, SubSeq(n, 1 - a.e, Len(n)),
                                            Bit(n, 0 - a.e)),
                             NatBits(10)))

\* |x| in thousandths, as binary digits, as DecimalPipe rounds it: on the
\* digits of the text of x
Thousandths(x) == Rounded(x, Odd(x), BitsMul(Odd(x).m, TenThousand))

\* DecimalPipe.transform of a number: rounded to three fraction digits, the
\* integer digits grouped
Signed(sign, written) ==
    IF sign < 0 /\ written # <<"0">> THEN <<"-">> \o written ELSE written

decimalPipe(x) == Signed(x.sign, Formatted(Thousandths(x)))

\* a pipe that takes the discount itself for the part to pay
fvalueOfTheDiscount(discount, price) ==
    NumDiv(NumMul(NumMul(discount, price), Million), Hundred)

\* the number transform hands to DecimalPipe
fvalue(discount, price) ==
    NumDiv(NumMul(NumMul(NumSub(Hundred, discount), price), Million), Hundred)

\* what transform returns for the text DecimalPipe gave, with the number
\* that was handed to DecimalPipe
Returned(f, result) ==
    [fvalue |-> f,
     result |-> IF result # <<>> THEN result \o <<" ", "T">>
                                 ELSE <<"0", " ", "T">>]

\* the number f formatted and returned
Formats(f) == Returned(f, decimalPipe(f))

\* DiscountPipe.transform
transform(discount, price) == Formats(fvalue(discount, price))

\* {{ discount | discount: price }} with the arguments at hand
Transform ==
    /\ UNCHANGED <<chatVars, fxVars, todoVars, tipVars, listVars>>
    /\ pipeLast.op = "init"
    /\ \E out \in {transform(Number(pipeLast.discount), pipeLast.price)} :
           pipeLast' = [pipeLast EXCEPT !.op = "transform",
                                        !.fvalue = out.fvalue,
                                        !.result = out.result]

\* the pipe before any call
PipeInit ==
    pipeLast = [op |-> "init", discount |-> 0, written |-> <<0, 1>>,
                price |-> Zero, fvalue |-> Zero, result |-> <<>>]

\* the pipe before a call, the arguments drawn: a percentage and a price
PipeInputs ==
    \E discount \in Discounts, written \in Prices :
        pipeLast = [op |-> "init", discount |-> discount, written |-> written,
                    price |-> Literal(written[1], written[2]),
                    fvalue |-> Zero, result |-> <<>>]

PipeNext == Transform

----------------------------------------------------------------------------
(* Properties of the chat. *)

\* the canned reply as the contract words it: "consider this as an answer of: ( m )"
CannedReply(m) ==
    <<"c", "o", "n", "s", "i", "d", "e", "r", " ", "t", "h", "i", "s", " ",
      "a", "s", " ", "a", "n", " ", "a", "n", "s", "w", "e", "r", " ", "o",
      "f", ":", " ", "(", " ">> \o m \o <<" ", ")">>

\* s without its i-th element
RemoveAt(s, i) == SubSeq(s, 1, i - 1) \o SubSeq(s, i + 1, Len(s))

\* the last operation called ChatService.addMessage(chatLast.arg)
AddMessageCalled ==
    \/ chatLast.op = "addMessage"
    \/ chatLast.op = "sendMessage" /\ trim(chatLast.arg) # <<>>

\* C1: addMessage(m) extends the history by exactly two entries, m and the
\* canned reply "consider this as an answer of: ( m )", and the entries that
\* were in the history before the call are all still there, in the same
\* relative order.
C1_AddMessageAddsMessageAndReply ==
    AddMessageCalled =>
        /\ Len(history) = Len(chatLast.pre) + 2
        /\ \E i, j \in 1..Len(history) :
              /\ i < j
              /\ {history[i], history[j]} =
                     {chatLast.arg, CannedReply(chatLast.arg)}
              /\ RemoveAt(RemoveAt(history, j), i) = chatLast.pre

\* C1 witness: addMessage has been called on a history that already held a
\* message and its reply.
C1_Witness ==
    /\ chatLast.op = "addMessage"
    /\ Len(chatLast.pre) >= 2
    /\ chatLast.arg # <<>>

\* C2: addMessage(newMessage) appends: the new message comes after every
\* message already in the history and every existing entry keeps its index.
C2_AddMessageAppendsAtTheEnd ==
    AddMessageCalled =>
        /\ Len(history) >= Len(chatLast.pre)
        /\ \A i \in 1..Len(chatLast.pre) : history[i] = chatLast.pre[i]
        /\ \E j \in (Len(chatLast.pre) + 1)..Len(history) :
              history[j] = chatLast.arg

\* C3: emission is synchronous: between two operations the messages of every
\* subscribed ChatBoxComponent equal the service's history, and when
\* addMessage(m) has returned that history holds both m and its reply.
C3_SubscribersNeverBehind ==
    /\ \A b \in Boxes : boxes[b].constructed => boxes[b].messages = history
    /\ AddMessageCalled =>
          \A b \in Boxes : boxes[b].constructed =>
              \E i, j \in 1..Len(boxes[b].messages) :
                  /\ i # j
                  /\ boxes[b].messages[i] = chatLast.arg
                  /\ boxes[b].messages[j] = CannedReply(chatLast.arg)

\* C3 witness: addMessage has returned while a ChatBoxComponent was
\* subscribed, on a history that was not empty.
C3_Witness ==
    /\ AddMessageCalled
    /\ Len(chatLast.pre) >= 2
    /\ \E b \in Boxes : boxes[b].constructed

\* C4: a ChatBoxComponent constructed after any number of addMessage calls is
\* handed the current full history at once: its messages equal the service's
\* history, which the subscription left as it was; before any addMessage that
\* is the empty history.
C4_LateSubscriberGetsCurrentHistory ==
    chatLast.op = "subscribe" =>
        /\ history = chatLast.pre
        /\ boxes[chatLast.box].constructed
        /\ boxes[chatLast.box].messages = chatLast.pre
        /\ emissions = <<chatLast.pre>>

\* C4 witness: a ChatBoxComponent was constructed when the history already
\* held two messages and their replies.
C4_Witness ==
    /\ chatLast.op = "subscribe"
    /\ Len(chatLast.pre) >= 4
    /\ boxes[chatLast.box].messages # <<>>

\* C13: sendMessage() passes the current newMessage to ChatService.addMessage
\* and then resets newMessage to the empty string, for every value of
\* newMessage.
C13_SendMessageAlwaysSendsAndClears ==
    chatLast.op = "sendMessage" =>
        /\ history =
               <<CannedReply(chatLast.arg), chatLast.arg>> \o chatLast.pre
        /\ newMessage = <<>>

\* the two arrays addMessage(chatLast.arg) emits, in their order
WithMessage == <<chatLast.arg>> \o chatLast.pre
WithReply == <<CannedReply(chatLast.arg)>> \o WithMessage

\* C15: each addMessage(m) causes exactly two emissions to every subscriber:
\* first the history with m and without its reply, then the history with m
\* and the reply; no subscriber is handed a reply whose message is missing.
C15_TwoEmissionsMessageThenReply ==
    AddMessageCalled =>
        /\ emissions = <<WithMessage, WithReply>>
        /\ \A b \in Boxes : boxes[b].constructed =>
              /\ Len(boxes[b].received) = 2
              /\ arrays[boxes[b].received[1]] = WithMessage
              /\ arrays[boxes[b].received[2]] = WithReply
              /\ \A k \in 1..2 :
                    LET got == arrays[boxes[b].received[k]]
                    IN  \A i \in 1..Len(got) :
                            got[i] = CannedReply(chatLast.arg) =>
                                /\ i < Len(got)
                                /\ got[i + 1] = chatLast.arg

\* C15 witness: addMessage ran with two subscribers on a history that was not
\* empty, and the first array they were handed has the message and no reply.
C15_Witness ==
    /\ chatLast.op = "addMessage"
    /\ Len(chatLast.pre) >= 2
    /\ \A b \in 1..2 : boxes[b].constructed /\ Len(boxes[b].received) = 2
    /\ Head(arrays[boxes[1].received[1]]) = chatLast.arg
    /\ \A i \in 1..Len(arrays[boxes[1].received[1]]) :
          arrays[boxes[1].received[1]][i] # CannedReply(chatLast.arg)

\* C16: between calls the history is newest-first and made of adjacent
\* pairs: counting from 0, every even index holds the canned reply built
\* from the entry after it, and the message sent last sits at index 1.
C16_HistoryIsReplyMessagePairs ==
    /\ Len(history) % 2 = 0
    /\ \A k \in 1..(Len(history) \div 2) :
          history[2 * k - 1] = CannedReply(history[2 * k])
    /\ AddMessageCalled => history[2] = chatLast.arg

\* C16 witness: two messages have been sent and the last one sits at index 1,
\* the one before it at index 3.
C16_Witness ==
    /\ AddMessageCalled
    /\ Len(history) = 4
    /\ history[2] = chatLast.arg
    /\ history[4] # history[2]
    /\ history[4] = chatLast.pre[2]

\* C17: after any sequence of sendMessage calls the history length is even
\* and twice the number of sendMessage calls whose newMessage held a
\* non-whitespace character; no operation makes the history shorter.
C17_LengthIsTwiceTheSentMessages ==
    /\ Len(history) % 2 = 0
    /\ Len(history) = 2 * sent
    /\ Len(history) >= Len(chatLast.pre)

\* C17 witness: a sendMessage with a white-space newMessage came after a
\* sendMessage that sent a message.
C17_Witness ==
    /\ chatLast.op = "sendMessage"
    /\ chatLast.arg = <<" ">>
    /\ sent >= 1
    /\ Len(history) = 2 * sent

\* C18: sendMessage() with an empty or whitespace-only newMessage changes
\* nothing: addMessage is not called, no subscriber is handed anything, the
\* history is as it was and newMessage keeps its value.
C18_BlankSendChangesNothing ==
    (chatLast.op = "sendMessage" /\ ~HasText(chatLast.arg)) =>
        /\ history = chatLast.pre
        /\ emissions = <<>>
        /\ \A b \in Boxes : boxes[b].received = <<>>
        /\ \A b \in Boxes : boxes[b].constructed =>
              boxes[b].messages = chatLast.pre
        /\ arrays[Len(arrays)] = chatLast.pre
        /\ newMessage = chatLast.arg

\* C18 witness: sendMessage ran with two blanks in the input field, a
\* subscriber present and a history that was not empty.
C18_Witness ==
    /\ chatLast.op = "sendMessage"
    /\ chatLast.arg = <<" ", " ">>
    /\ newMessage = <<" ", " ">>
    /\ Len(history) >= 2
    /\ boxes[1].constructed

\* C19: every emitted history is a fresh array that is never changed
\* afterwards: the array a subscriber has kept from an earlier emission
\* holds what it held then, whatever addMessage calls have followed.
C19_KeptArrayNeverChanges ==
    kept.id # 0 =>
        /\ kept.id \in 1..Len(arrays)
        /\ arrays[kept.id] = kept.contents

\* C19 witness: a subscriber kept the array with a message but not yet its
\* reply, and a later addMessage has run.
C19_Witness ==
    /\ kept.id # 0
    /\ Len(kept.contents) = 1
    /\ chatLast.op = "addMessage"
    /\ Len(history) = 4
    /\ Len(arrays) >= kept.id + 3

----------------------------------------------------------------------------
(* Properties of the currency converter. *)

\* the six ordered pairs the rate table defines
DefinedPairs ==
    {<<"USD", "EUR">>, <<"USD", "GBP">>, <<"EUR", "USD">>,
     <<"EUR", "GBP">>, <<"GBP", "USD">>, <<"GBP", "EUR">>}

\* the rates as the contract lists them, times 100
ListedRate(from, to) ==
    CASE from = "USD" /\ to = "EUR" -> 90
      [] from = "USD" /\ to = "GBP" -> 78
      [] from = "EUR" /\ to = "USD" -> 110
      [] from = "EUR" /\ to = "GBP" -> 87
      [] from = "GBP" /\ to = "USD" -> 128
      [] from = "GBP" /\ to = "EUR" -> 115

\* the last operation called convertAmount(fxLast.amount, fxLast.from, fxLast.to)
ConvertAmountCalled == fxLast.op \in {"convertAmount", "convert"}

\* C5: convertAmount(amount, from, to) throws exactly when the rate table has
\* no entry for the ordered pair (from, to) - from = to and every currency
\* outside USD, EUR, GBP included - and never for one of the six defined
\* pairs, whatever the amount.
C5_ThrowsExactlyWhenNoRate ==
    ConvertAmountCalled =>
        (fxLast.result.threw <=> <<fxLast.from, fxLast.to>> \notin DefinedPairs)

\* C6: when the service throws, convert() catches the error, shows its
\* message through alert and sets convertedAmount to null, whatever it held
\* before; the error does not leave convert(), and amount, fromCurrency and
\* toCurrency are as they were.
C6_ConvertCatchesAndResets ==
    (fxLast.op = "convert" /\ fxLast.result.threw) =>
        /\ convertedAmount = Null
        /\ alerts = <<fxLast.result.message>>
        /\ ~fxLast.escaped
        /\ amount = fxLast.pre.amount
        /\ fromCurrency = fxLast.pre.fromCurrency
        /\ toCurrency = fxLast.pre.toCurrency

\* C6 witness: convert() met a throwing service after an earlier conversion
\* had left a number in convertedAmount.
C6_Witness ==
    /\ fxLast.op = "convert"
    /\ fxLast.result.threw
    /\ fxLast.pre.convertedAmount.type = "number"
    /\ fxLast.pre.convertedAmount.n > 0

\* C7: for each of the six defined pairs convertAmount(amount, from, to)
\* returns amount times the listed rate (USD->EUR 0.9, USD->GBP 0.78,
\* EUR->USD 1.1, EUR->GBP 0.87, GBP->USD 1.28, GBP->EUR 1.15), and the table
\* holds exactly those rates in every state.
C7_DefinedPairsMultiplyByListedRate ==
    /\ DOMAIN exchangeRates = {"USD", "EUR", "GBP"}
    /\ \A from \in DOMAIN exchangeRates :
          /\ \A to \in DOMAIN exchangeRates[from] :
                <<from, to>> \in DefinedPairs
          /\ \A p \in DefinedPairs :
                p[1] = from =>
                    /\ p[2] \in DOMAIN exchangeRates[from]
                    /\ exchangeRates[from][p[2]] = ListedRate(from, p[2])
    /\ (ConvertAmountCalled /\ <<fxLast.from, fxLast.to>> \in DefinedPairs) =>
          /\ ~fxLast.result.threw
          /\ fxLast.result.value =
                 Num(fxLast.amount * ListedRate(fxLast.from, fxLast.to))

\* C7 witness: convertAmount was called with a positive amount for GBP->EUR.
C7_Witness ==
    /\ fxLast.op = "convertAmount"
    /\ fxLast.amount = 2
    /\ fxLast.from = "GBP"
    /\ fxLast.to = "EUR"
    /\ fxLast.result.value = Num(230)

\* C8: for every fromCurrency and toCurrency the user can select from the
\* component's currencies, convert() leaves the number the service
\* calculated in convertedAmount, not null.
C8_ConvertAlwaysShowsANumber ==
    fxLast.op = "convert" =>
        /\ convertedAmount # Null
        /\ convertedAmount.type = "number"
        /\ convertedAmount = fxLast.result.value

----------------------------------------------------------------------------
(* Properties of the task manager. *)

\* t holds a character that is no white space
NonBlank(t) == \E i \in 1..Len(t) : t[i] # " "

\* C9: addTask(t, _) with a t that holds a non-whitespace character makes t
\* the last element of the task list; the list is one longer and its earlier
\* elements are unchanged, in the same order.
C9_AddTaskAppendsTheTask ==
    (todoLast.op = "addTask" /\ NonBlank(todoLast.task)) =>
        /\ Len(tasks) = Len(todoLast.pre) + 1
        /\ tasks[Len(tasks)] = todoLast.task
        /\ \A i \in 1..Len(todoLast.pre) : tasks[i] = todoLast.pre[i]

\* C9 witness: a task with leading white space was added to a list that
\* already held a task.
C9_Witness ==
    /\ todoLast.op = "addTask"
    /\ NonBlank(todoLast.task)
    /\ Head(todoLast.task) = " "
    /\ Len(todoLast.pre) >= 1

\* C10: removeTask(index, _) with 0 <= index < tasks.length removes exactly
\* the element at index: the list is one shorter, the elements before index
\* keep their positions and those after it each move down by one.
C10_RemoveTaskRemovesThatIndex ==
    (/\ todoLast.op = "removeTask"
     /\ 0 <= todoLast.index
     /\ todoLast.index < Len(todoLast.pre)) =>
        /\ Len(tasks) = Len(todoLast.pre) - 1
        /\ \A i \in 1..todoLast.index : tasks[i] = todoLast.pre[i]
        /\ \A i \in (todoLast.index + 1)..Len(tasks) :
              tasks[i] = todoLast.pre[i + 1]

\* C10 witness: the middle one of three different tasks was removed.
C10_Witness ==
    /\ todoLast.op = "removeTask"
    /\ todoLast.index = 1
    /\ Len(todoLast.pre) = 3
    /\ todoLast.pre[1] # todoLast.pre[2]
    /\ todoLast.pre[2] # todoLast.pre[3]
    /\ tasks = <<todoLast.pre[1], todoLast.pre[3]>>

----------------------------------------------------------------------------
(* Properties of the to-do list. *)

\* the tasks instance c shows
Shown(c) == arrayOf(TaskStore, todoComps[c].tasks)

\* C11: every TodoListComponent that injects TaskManagerService works on the
\* one shared task list: the tasks of each constructed instance are the
\* service's tasks, so what one instance adds or removes the other shows.
C11_ComponentsShareTheTaskList ==
    \A c \in Comps : todoComps[c].constructed => Shown(c) = tasks

\* C11 witness: with both instances constructed, instance 1 has added a task
\* and instance 2 shows it.
C11_Witness ==
    /\ \A c \in Comps : todoComps[c].constructed
    /\ appLast = [op |-> "addTask", comp |-> 1]
    /\ Len(tasks) = Len(todoLast.pre) + 1
    /\ Shown(2) # <<>>
    /\ Shown(2)[Len(Shown(2))] = todoLast.task

\* C20: in the service-backed TodoListComponent, after any sequence of
\* addTask and removeTask calls, IsAny is true if and only if the service's
\* task list is not empty.
C20_IsAnyTracksTheTaskList ==
    \A c \in Comps :
        todoComps[c].constructed => (todoComps[c].IsAny <=> tasks # <<>>)

----------------------------------------------------------------------------
(* Properties of the standalone to-do list. *)

\* C21: in the standalone TodoListComponent IsAny is true if and only if
\* tasks is not empty, in every reachable state: initially, after every
\* addTask, blank or not, and after every removeTask, for any index.
C21_StandaloneIsAnyIffTasks ==
    todoList.IsAny <=> todoList.tasks # <<>>

\* C21 witness: removeTask has taken the only task, and IsAny, true before
\* the call, is false after it.
C21_Witness ==
    /\ listLast.op = "removeTask"
    /\ Len(listLast.pre.tasks) = 1
    /\ listLast.pre.IsAny
    /\ todoList.tasks = <<>>
    /\ ~todoList.IsAny

\* C22: after an addTask() with a newTask that holds a non-whitespace
\* character the input field newTask is the empty string, in the
\* service-backed TodoListComponent as in the standalone one, so that a
\* second addTask() right after it adds nothing.
C22_AddTaskResetsNewTask ==
    /\ (appLast.op = "addTask" /\ NonBlank(todoLast.task)) =>
          todoComps[appLast.comp].newTask = <<>>
    /\ (listLast.op = "addTask" /\ NonBlank(listLast.pre.newTask)) =>
          todoList.newTask = <<>>

\* C23: addTask with an empty or whitespace-only task leaves the task list
\* as it was, same elements, same order, same length, in the service and in
\* both versions of TodoListComponent.
C23_BlankAddTaskChangesNoList ==
    /\ (todoLast.op = "addTask" /\ ~NonBlank(todoLast.task)) =>
          /\ tasks = todoLast.pre
          /\ \A c \in Comps : todoComps[c].constructed => Shown(c) = todoLast.pre
    /\ (listLast.op = "addTask" /\ ~NonBlank(listLast.pre.newTask)) =>
          todoList.tasks = listLast.pre.tasks

\* C23 witness: the service was given a task of one blank while it held a
\* task, and holds what it held.
C23_Witness ==
    /\ todoLast.op = "addTask"
    /\ todoLast.task = <<" ">>
    /\ todoLast.pre # <<>>
    /\ tasks = todoLast.pre

\* post is pre with at most one element taken out, and with none taken out
\* when index is not below the length of pre
AtMostOneRemoved(pre, post, index) ==
    /\ Len(pre) - 1 <= Len(post)
    /\ Len(post) <= Len(pre)
    /\ post = pre \/ \E i \in 1..Len(pre) : post = RemoveAt(pre, i)
    /\ (index >= Len(pre) \/ pre = <<>>) => Len(post) = Len(pre)

\* C24: removeTask(index, _) never removes more than one element and never
\* changes the order of those that remain: for every integer index the
\* length decreases by at most one, and not at all when
\* index >= tasks.length or when the list is empty.
C24_RemoveTaskRemovesAtMostOne ==
    /\ todoLast.op = "removeTask" =>
          AtMostOneRemoved(todoLast.pre, tasks, todoLast.index)
    /\ listLast.op = "removeTask" =>
          AtMostOneRemoved(listLast.pre.tasks, todoList.tasks, listLast.index)

\* C24 witness: the service held three tasks and removeTask(-2, _) took the
\* second of them and no other.
C24_Witness ==
    /\ todoLast.op = "removeTask"
    /\ todoLast.index = -2
    /\ Len(todoLast.pre) = 3
    /\ todoLast.pre[1] # todoLast.pre[3]
    /\ tasks = <<todoLast.pre[1], todoLast.pre[3]>>

----------------------------------------------------------------------------
(* Properties of the tooltip. *)

\* the places among the host's children that hold a node of class 'tooltip'
TooltipChildren ==
    {i \in 1..Len(hostChildren) : "tooltip" \in nodes[hostChildren[i]].classes}

\* C12: after a mouseenter on the host exactly one element with the class
\* 'tooltip' and the text tooltipText is a child of the host; after the
\* mouseleave that follows it the host has no tooltip child and
\* tooltipElement is null.
C12_TooltipShownThenRemoved ==
    /\ tipLast.op = "mouseenter" =>
          /\ Cardinality(TooltipChildren) = 1
          /\ \A i \in TooltipChildren :
                /\ nodes[hostChildren[i]].text = tooltipText
                /\ hostChildren[i] = tooltipElement
    /\ (tipLast.op = "mouseleave" /\ tipLast.pre.tooltipElement # 0) =>
          /\ TooltipChildren = {}
          /\ tooltipElement = 0

\* C25: after any sequence of mouseenter and mouseleave events on the host,
\* two mouseenter events with no mouseleave between them included, the host
\* has at most one tooltip child, and none whenever the last event was a
\* mouseleave.
C25_AtMostOneTooltipChild ==
    /\ Cardinality(TooltipChildren) <= 1
    /\ tipLast.op = "mouseleave" => TooltipChildren = {}

\* the Renderer2 calls of the last handler that are removeChild
RemoveChildCalls == SelectSeq(tipLast.calls, LAMBDA c : c = "removeChild")

\* C26: a mouseleave while no tooltip is shown, before any mouseenter or as
\* the second mouseleave in a row, changes nothing: no removeChild is issued
\* on the host and tooltipElement stays null.
C26_MouseLeaveWithoutTooltipChangesNothing ==
    (tipLast.op = "mouseleave" /\ tipLast.pre.tooltipElement = 0) =>
        /\ RemoveChildCalls = <<>>
        /\ tooltipElement = 0
        /\ hostChildren = tipLast.pre.hostChildren
        /\ nodes = tipLast.pre.nodes
        /\ tooltipText = tipLast.pre.tooltipText

\* C26 witness: a mouseleave found tooltipElement null and the host with its
\* own content only, and left both so.
C26_Witness ==
    /\ tipLast.op = "mouseleave"
    /\ tipLast.pre.tooltipElement = 0
    /\ tipLast.pre.hostChildren = <<1>>
    /\ hostChildren = <<1>>
    /\ tooltipElement = 0

----------------------------------------------------------------------------
(* Properties of the discount pipe. A natural number is written as its    *)
(* binary digits, as in the arithmetic of the pipe.                        *)

\* the README's DiscountPricePipe, price - (price * discount) / 100, as
\* JavaScript computes it
discountedPrice(price, discount) ==
    NumSub(price, NumDiv(NumMul(price, discount), Hundred))

\* The README's discounted price, price - (price * discount) / 100, of the
\* price m * 2^e, multiplied by 10^6, exactly: it is
\* m * (100 - discount) * 10^4 * 2^e, and this is the natural number in
\* front of 2^e.
ExactDiscounted(price, discount) ==
    BitsMul(BitsMul(price.m, NatBits(100 - discount)), NatBits(10000))

\* |a - b| <= b / 2^50, for natural numbers a and b
CloseDigits(a, b) ==
    IF BitsGeq(a, b) THEN BitsGeq(b, ShiftLeft(BitsSub(a, b), 50))
    ELSE BitsGeq(b, ShiftLeft(BitsSub(b, a), 50))

\* x * 2^ex differs from y * 2^ey by at most the 2^50-th part of the latter
Close(x, ex, y, ey) ==
    IF ex < ey THEN CloseDigits(x, ShiftLeft(y, ey - ex))
    ELSE CloseDigits(ShiftLeft(x, ex - ey), y)

\* C14: the number DiscountPipe.transform(discount, price) formats is the
\* README's discounted price, price - (price * discount) / 100, multiplied by
\* 10^6, for every discount in 0..100 and every non-negative price; it is 0
\* at discount 100 and price * 10^6 at discount 0.
C14_FormatsTheDiscountedPrice ==
    pipeLast.op = "transform" =>
        /\ pipeLast.fvalue =
              NumMul(discountedPrice(pipeLast.price, Number(pipeLast.discount)),
                     Million)
        /\ pipeLast.discount = 100 => pipeLast.fvalue = Zero
        /\ pipeLast.discount = 0 =>
              pipeLast.fvalue = NumMul(pipeLast.price, Million)

\* C14 as amended: for every discount in 0..100 and every non-negative
\* price, the number transform formats is not negative and differs from the
\* exact value of the README's discounted price multiplied by 10^6 by at most
\* the 2^50-th part of that value, the rounding of the floating-point
\* operations; it is 0 at discount 100, and at discount 0 it differs from
\* the exact price * 10^6 by no more than that.
C14_FormatsTheDiscountedPriceRounded ==
    pipeLast.op = "transform" =>
        /\ pipeLast.fvalue.sign = 1
        /\ Close(pipeLast.fvalue.m, pipeLast.fvalue.e,
                 ExactDiscounted(pipeLast.price, pipeLast.discount),
                 pipeLast.price.e)
        /\ pipeLast.discount = 100 => pipeLast.fvalue = Zero
        /\ pipeLast.discount = 0 =>
              Close(pipeLast.fvalue.m, pipeLast.fvalue.e,
                    BitsMul(pipeLast.price.m, NatBits(10^6)),
                    pipeLast.price.e)

\* C14 witness: 3 percent off 0.1, where the number formatted,
\* 97000.00000000001, is not the 97000 of the README's expression.
C14_Witness ==
    /\ pipeLast.op = "transform"
    /\ pipeLast.discount = 3
    /\ pipeLast.written = <<1, 10>>
    /\ pipeLast.fvalue #
          NumMul(discountedPrice(pipeLast.price, Number(3)), Million)
    /\ pipeLast.result = <<"9", "7", ",", "0", "0", "0", " ", "T">>

----------------------------------------------------------------------------

Init == ChatInit /\ FxInit /\ TodoInit /\ TodoAppInit /\ TipInit /\ PipeInit
        /\ ListInit

\* as Init, with the arguments of the pipe drawn
InitPipe ==
    ChatInit /\ FxInit /\ TodoInit /\ TodoAppInit /\ TipInit /\ PipeInputs
        /\ ListInit

\* the chat alone
SpecChat == Init /\ [][ChatNext]_vars

\* ChatService called through each of its public methods
SpecChatService == Init /\ [][ChatServiceNext]_vars

\* the chat service and subscribers that keep what they receive
SpecChatKeep == Init /\ [][ChatKeepNext]_vars

\* the chat with MessageInputComponent as the only caller of the service
SpecChatUI == Init /\ [][ChatUINext]_vars

\* the currency converter as its user drives it
SpecFx == Init /\ [][FxNext]_vars

\* the exchange rate service alone
SpecFxService == Init /\ [][FxServiceNext]_vars

\* the task manager alone
SpecTodo == Init /\ [][TodoNext]_vars

\* two TodoListComponent instances on the one TaskManagerService
SpecTodoApp == Init /\ [][TodoAppNext]_vars

\* the tooltip directive and the events of its host element
SpecTooltip == Init /\ [][TipNext]_vars

\* the discount pipe applied to discounts and prices
SpecPipe == InitPipe /\ [][PipeNext]_vars

\* the standalone TodoListComponent
SpecTodoList == Init /\ [][ListNext]_vars

\* the service, the service-backed and the standalone TodoListComponent
SpecTodoLists == Init /\ [][TodoListsNext]_vars

====
